---------------------------- MODULE Spec2Model ----------------------------
(***************************************************************************)
(* The Pizza Meter: readings -> normalizer -> scorer -> aggregator.        *)
(*                                                                         *)
(* Three programs of the repository run the same pipeline over the venue   *)
(* provider's answers:                                                     *)
(*   dashboard.py         get_live_popularity, get_data and the page's     *)
(*                        script (updateAlertBanner, renderSensorList)     *)
(*   test_scraper.py      get_live_popularity, calculate_trend,            *)
(*                        generate_report                                  *)
(*   robust_scraper_poc.py fetch_sensor_data, main                         *)
(*                                                                         *)
(* Python's None is the empty tuple and a present value v the tuple <<v>>. *)
(* A percentage is an exact fraction <<numerator, denominator>> in lowest   *)
(* terms; over the readings used here the code's float comparisons against *)
(* 50, 25, 10, -10 and -25 give the same outcome as the exact ones.        *)
(***************************************************************************)
EXTENDS Integers, Sequences, FiniteSets, TLC

VARIABLES
    program,        \* which program runs: "dashboard", "report" or "poc"
    SENSORS,        \* the roster: a sequence of roles (SENSORS / TARGETS)
    day_of_week,    \* datetime.now().weekday(), 0 = Monday
    hour,           \* datetime.now().hour
    provider,       \* the venue provider's answer for each sensor of the roster
    pc,             \* the running program's position
    data,           \* the last return value of the fetch function
    sensors_data,   \* get_data.sensors_data / generate_report.sensor_results / main.results
    active,         \* the sensors kept by the composite's filter (roster positions)
    scores,         \* the percentages that enter the mean
    composite_score,\* get_data.composite_score / generate_report.avg_anomaly
    alert,          \* the alert tier shown (updateAlertBanner.title / generate_report.alert)
    labels,         \* the per-sensor labels shown (getAnomalyClass / calculate_trend / signal)
    shown,          \* the per-sensor figure shown (getAnomalyText / calculate_trend / signal)
    yfinance,       \* whether "import yfinance" succeeds
    tickers,        \* what yf.Ticker(symbol) answers, for "^VIX" and "GC=F"
    market,         \* the return value of get_market_data / fetch_market_data
    rng,            \* numpy's global RandomState: the draws made since the last seed(42)
    req,            \* the /api/data requests: position, draws made, response
    simulated,      \* get_data.historical: the pizza_index and vix series
    response,       \* the correlation and spike_count get_data hands to jsonify
    body,           \* the JSON text of the response, token by token
    page,           \* what "await response.json()" gives refreshData
    aligned,        \* get_data.pizza_arr and get_data.vix_arr
    pizzaScore      \* refreshData.pizzaScore, the number the gauge is drawn with

vars == <<program, SENSORS, day_of_week, hour, provider, pc, data, sensors_data,
          active, scores, composite_score, alert, labels, shown,
          yfinance, tickers, market, rng, req, simulated, response, body, page,
          aligned, pizzaScore>>

\* the sensor pipeline's state, without the program and its position
pipeline == <<SENSORS, day_of_week, hour, provider, data, sensors_data,
              active, scores, composite_score, alert, labels, shown, pizzaScore>>

\* the state outside the sensor pipeline
others == <<yfinance, tickers, market, rng, req, simulated, response, body, page,
            aligned>>

\* nothing of the correlation step has run
CorrIdle ==
    /\ response = << >>
    /\ body = << >>
    /\ page = << >>
    /\ aligned = << >>

-----------------------------------------------------------------------------
(* Optional values *)

None == << >>

Some(v) == <<v>>

IsNone(o) == o = None

Val(o) == o[1]

\* dict.get(key, default)
Get(d, key, default) == IF key \in DOMAIN d THEN d[key] ELSE default

-----------------------------------------------------------------------------
(* Bounds and input sets *)

\* the longest roster
MaxSensors == 2

\* populartimes has at most 7 entries
DaysPerWeek == 7

\* range(23, 17, -1): the previous day's evening, 23 down to 18
EveningFrom == 23

\* mutant: range(23, 16, -1), one hour too many
EveningStopEarly == EveningFrom - 7

EveningStop == 17

Roles == {"Primary", "Inverse"}

\* Every series of a length in lens that is 0 outside the hours of hot and
\* 0 or a value of vals at each of them.
SeriesFamily(lens, hot, vals) ==
    UNION { LET at == hot \cap (0 .. (n - 1))
            IN  { [k \in 1 .. n |-> IF (k - 1) \in at THEN f[k - 1] ELSE 0] :
                    f \in [at -> vals \cup {0}] }
          : n \in lens }

\* populartimes with n days, today's and the previous day's series in place
Week(n, dow, today, prev) ==
    [d \in 1 .. n |-> IF d - 1 = dow THEN today
                      ELSE IF d - 1 = (dow - 1) % DaysPerWeek THEN prev
                      ELSE << >>]

Raises == [status |-> "raises"]

Empty == [status |-> "empty"]

Answer(current, populartimes) ==
    [status |-> "ok", current_popularity |-> current, populartimes |-> populartimes]

-----------------------------------------------------------------------------
(* dashboard.py: get_live_popularity *)

\* mutant: the loop without its break ends on the smallest such h
RECURSIVE ScanDownNoBreak(_, _, _)
ScanDownNoBreak(series, h, stop) ==
    IF h <= stop THEN None
    ELSE LET later == ScanDownNoBreak(series, h - 1, stop)
         IN  IF ~IsNone(later) THEN later
             ELSE IF h < Len(series) /\ series[h + 1] > 0 THEN Some(h)
             ELSE None

\* mutant: series[h] >= 0 accepts a zero entry
RECURSIVE ScanDownNonNegative(_, _, _)
ScanDownNonNegative(series, h, stop) ==
    IF h <= stop THEN None
    ELSE IF h < Len(series) /\ series[h + 1] >= 0 THEN Some(h)
    ELSE ScanDownNonNegative(series, h - 1, stop)

\* for h in range(h, stop, -1): the first h with h < len(series) and series[h] > 0
RECURSIVE ScanDown(_, _, _)
ScanDown(series, h, stop) ==
    IF h <= stop THEN None
    ELSE IF h < Len(series) /\ series[h + 1] > 0 THEN Some(h)
    ELSE ScanDown(series, h - 1, stop)

\* today_data: populartimes[day_of_week].get('data', []) when the day exists
today_data(populartimes, dow) ==
    IF populartimes # << >> /\ Len(populartimes) > dow
    THEN populartimes[dow + 1] ELSE << >>

\* mutant: the baseline is read at the hour the backward scan stops at
usual_pop_at_scan(populartimes, dow, h) ==
    LET today == today_data(populartimes, dow)
        t     == ScanDown(today, h, -1)
    IN  IF h < Len(today)
        THEN (IF ~IsNone(t) THEN Some(today[Val(t) + 1]) ELSE Some(today[h + 1]))
        ELSE None

\* usual_pop: today_data[hour] when hour < len(today_data)
usual_pop(populartimes, dow, h) ==
    LET today == today_data(populartimes, dow)
    IN  IF h < Len(today) THEN Some(today[h + 1]) ELSE None

\* prev_data of the fallback: the previous day's series when that day exists
prev_data(populartimes, dow) ==
    LET prev_day == (dow - 1) % DaysPerWeek
    IN  IF Len(populartimes) > prev_day THEN populartimes[prev_day + 1] ELSE << >>

\* mutant: fallback_hour is assigned before the entry is tested, so a search
\* that finds nothing leaves the last hour it tried
fallback_hour_early(current_pop, populartimes, dow, h) ==
    LET today == today_data(populartimes, dow)
        prev  == prev_data(populartimes, dow)
        t     == ScanDown(today, h, -1)
        p     == ScanDown(prev, EveningFrom, EveningStop)
    IN  IF IsNone(current_pop) /\ today # << >>
        THEN IF ~IsNone(t) THEN <<Some(today[Val(t) + 1]), t>>
             ELSE IF populartimes # << >> /\ ~IsNone(p)
                  THEN <<Some(prev[Val(p) + 1]), p>>
                  ELSE <<None, Some(0)>>
        ELSE <<None, None>>

\* mutant: the backward scan starts one hour before the current hour
fallback_before_hour(current_pop, populartimes, dow, h) ==
    LET today == today_data(populartimes, dow)
        prev  == prev_data(populartimes, dow)
        t     == ScanDown(today, h - 1, -1)
        p     == ScanDown(prev, EveningFrom, EveningStop)
    IN  IF IsNone(current_pop) /\ today # << >>
        THEN IF ~IsNone(t) THEN <<Some(today[Val(t) + 1]), t>>
             ELSE IF populartimes # << >> /\ ~IsNone(p)
                  THEN <<Some(prev[Val(p) + 1]), p>>
                  ELSE <<None, None>>
        ELSE <<None, None>>

\* mutant: "if not current_pop" takes a live 0 for a missing value
fallback_falsy(current_pop, populartimes, dow, h) ==
    LET today == today_data(populartimes, dow)
        prev  == prev_data(populartimes, dow)
        t     == ScanDown(today, h, -1)
        p     == ScanDown(prev, EveningFrom, EveningStop)
    IN  IF (IsNone(current_pop) \/ current_pop = Some(0)) /\ today # << >>
        THEN IF ~IsNone(t) THEN <<Some(today[Val(t) + 1]), t>>
             ELSE IF populartimes # << >> /\ ~IsNone(p)
                  THEN <<Some(prev[Val(p) + 1]), p>>
                  ELSE <<None, None>>
        ELSE <<None, None>>

\* The fallback search: <<fallback_value, fallback_hour>>, both None when the
\* search is skipped or finds nothing.
fallback(current_pop, populartimes, dow, h) ==
    LET today == today_data(populartimes, dow)
        prev  == prev_data(populartimes, dow)
        t     == ScanDown(today, h, -1)
        p     == ScanDown(prev, EveningFrom, EveningStop)
    IN  IF IsNone(current_pop) /\ today # << >>
        THEN IF ~IsNone(t) THEN <<Some(today[Val(t) + 1]), t>>
             ELSE IF populartimes # << >> /\ ~IsNone(p)
                  THEN <<Some(prev[Val(p) + 1]), p>>
                  ELSE <<None, None>>
        ELSE <<None, None>>

get_live_popularity(answer, dow, h) ==
    IF answer.status = "raises" THEN [has_data |-> FALSE, error |-> "exception"]
    ELSE IF answer.status = "empty" THEN [has_data |-> FALSE, error |-> "No data returned"]
    ELSE LET fb == fallback(answer.current_popularity, answer.populartimes, dow, h)
         IN  [has_data           |-> TRUE,
              current_popularity |-> IF ~IsNone(fb[1]) THEN fb[1]
                                     ELSE answer.current_popularity,
              usual_popularity   |-> usual_pop(answer.populartimes, dow, h),
              today_hourly       |-> today_data(answer.populartimes, dow),
              is_fallback        |-> ~IsNone(fb[1]),
              fallback_hour      |-> fb[2]]

-----------------------------------------------------------------------------
(* Exact fractions for the code's float percentages *)

Abs(n) == IF n < 0 THEN -n ELSE n

RECURSIVE GCD(_, _)
GCD(a, b) == IF b = 0 THEN a ELSE GCD(b, a % b)

\* lowest terms, positive denominator
Frac(n, d) ==
    LET g == GCD(Abs(n), Abs(d))
        s == IF d < 0 THEN -1 ELSE 1
    IN  <<(s * n) \div g, (s * d) \div g>>

FracNeg(a) == <<-a[1], a[2]>>

FracAdd(a, b) == Frac(a[1] * b[2] + b[1] * a[2], a[2] * b[2])

\* a > k and a < k, for an integer k
FracGT(a, k) == a[1] > k * a[2]

FracLT(a, k) == a[1] < k * a[2]

\* ((current - usual) / usual) * 100
PctChange(current, usual) == Frac((current - usual) * 100, usual)

\* sum(scores) / len(scores)
RECURSIVE FracSum(_)
FracSum(s) == IF s = << >> THEN <<0, 1>> ELSE FracAdd(s[1], FracSum(Tail(s)))

Mean(s) == LET t == FracSum(s) IN Frac(t[1], t[2] * Len(s))

\* Number.prototype.toFixed(0): the nearest integer, a tie away from zero
toFixed0(a) ==
    IF a[1] >= 0 THEN (2 * a[1] + a[2]) \div (2 * a[2])
    ELSE -((2 * (-a[1]) + a[2]) \div (2 * a[2]))

\* format(x, ".0f"): the nearest integer, a tie to the even one
format0f(a) ==
    LET f == a[1] \div a[2]
        r == 2 * (a[1] - f * a[2])
    IN  IF r < a[2] THEN f
        ELSE IF r > a[2] THEN f + 1
        ELSE IF f % 2 = 0 THEN f ELSE f + 1

-----------------------------------------------------------------------------
(* dashboard.py: get_data and the page's script *)

\* mutant: data.get('usual_popularity', 0)
sensor_entry_usual_zero(sensor, d) ==
    [name          |-> sensor.name,
     role          |-> sensor.role,
     current       |-> Get(d, "current_popularity", None),
     usual         |-> Get(d, "usual_popularity", Some(0)),
     today_hourly  |-> Get(d, "today_hourly", << >>),
     is_fallback   |-> Get(d, "is_fallback", FALSE),
     fallback_hour |-> Get(d, "fallback_hour", None)]

\* one entry of sensors_data
sensor_entry(sensor, d) ==
    [name          |-> sensor.name,
     role          |-> sensor.role,
     current       |-> Get(d, "current_popularity", None),
     usual         |-> Get(d, "usual_popularity", None),
     today_hourly  |-> Get(d, "today_hourly", << >>),
     is_fallback   |-> Get(d, "is_fallback", FALSE),
     fallback_hour |-> Get(d, "fallback_hour", None)]

\* mutant: "s['current'] and ..." drops a live 0
IsActiveTruthy(s) ==
    /\ ~IsNone(s.current) /\ Val(s.current) # 0
    /\ ~IsNone(s.usual) /\ Val(s.usual) # 0 /\ Val(s.usual) > 0

\* s['current'] is not None and s['usual'] and s['usual'] > 0
IsActive(s) == ~IsNone(s.current) /\ ~IsNone(s.usual) /\ Val(s.usual) # 0 /\ Val(s.usual) > 0

\* pct of one active sensor, as get_data computes it
dash_pct(s) == PctChange(Val(s.current), Val(s.usual))

\* jsonify, then response.json(): None arrives as null, a number as itself
Jsonify(o) == IF IsNone(o) THEN [js |-> "null"] ELSE [js |-> "number", v |-> Val(o)]

\* mutant: score >= 50 is critical
updateAlertBannerInclusive(score) ==
    IF score.js = "null"
    THEN [className |-> "normal", title |-> "SENSORS OFFLINE"]
    ELSE IF ~FracLT(score.v, 50)
    THEN [className |-> "critical", title |-> "RED ALERT - ANOMALY DETECTED"]
    ELSE IF FracGT(score.v, 25)
    THEN [className |-> "elevated", title |-> "ELEVATED ACTIVITY"]
    ELSE [className |-> "normal", title |-> "NORMAL OPERATIONS"]

updateAlertBanner(score) ==
    IF score.js = "null"
    THEN [className |-> "normal", title |-> "SENSORS OFFLINE"]
    ELSE IF FracGT(score.v, 50)
    THEN [className |-> "critical", title |-> "RED ALERT - ANOMALY DETECTED"]
    ELSE IF FracGT(score.v, 25)
    THEN [className |-> "elevated", title |-> "ELEVATED ACTIVITY"]
    ELSE [className |-> "normal", title |-> "NORMAL OPERATIONS"]

\* mutant: the closed test is skipped and null counts as 0 in the arithmetic
getAnomalyClassNoNullTest(current, usual) ==
    IF usual.js = "null" \/ usual.v = 0 THEN "anomaly-normal"
    ELSE LET pct == PctChange(IF current.js = "null" THEN 0 ELSE current.v, usual.v)
         IN  IF FracGT(pct, 50) THEN "anomaly-spike"
             ELSE IF FracGT(pct, 25) THEN "anomaly-high"
             ELSE IF FracLT(pct, -25) THEN "anomaly-low"
             ELSE "anomaly-normal"

\* mutant: pct >= 25 is high
getAnomalyClassInclusive(current, usual) ==
    IF current.js = "null" THEN "anomaly-closed"
    ELSE IF usual.js = "null" \/ usual.v = 0 THEN "anomaly-normal"
    ELSE LET pct == PctChange(current.v, usual.v)
         IN  IF FracGT(pct, 50) THEN "anomaly-spike"
             ELSE IF ~FracLT(pct, 25) THEN "anomaly-high"
             ELSE IF FracLT(pct, -25) THEN "anomaly-low"
             ELSE "anomaly-normal"

getAnomalyClass(current, usual) ==
    IF current.js = "null" THEN "anomaly-closed"
    ELSE IF usual.js = "null" \/ usual.v = 0 THEN "anomaly-normal"
    ELSE LET pct == PctChange(current.v, usual.v)
         IN  IF FracGT(pct, 50) THEN "anomaly-spike"
             ELSE IF FracGT(pct, 25) THEN "anomaly-high"
             ELSE IF FracLT(pct, -25) THEN "anomaly-low"
             ELSE "anomaly-normal"

\* the badge's text: CLOSED, the live value, or the rounded percentage
getAnomalyText(current, usual) ==
    IF current.js = "null" THEN [kind |-> "closed"]
    ELSE IF usual.js = "null" \/ usual.v = 0 THEN [kind |-> "live", v |-> current.v]
    ELSE [kind |-> "pct", v |-> toFixed0(PctChange(current.v, usual.v))]

\* mutant: the entry is put in front of the list
DashFetchSensorPrepend ==
    /\ program = "dashboard" /\ pc = "fetch"
    /\ Len(sensors_data) < Len(SENSORS)
    /\ LET i == Len(sensors_data) + 1
           d == get_live_popularity(provider[i], day_of_week, hour)
       IN  /\ data' = d
           /\ sensors_data' = <<sensor_entry(SENSORS[i], d)>> \o sensors_data
    /\ UNCHANGED pizzaScore
    /\ UNCHANGED others
    /\ UNCHANGED <<program, SENSORS, day_of_week, hour, provider, pc,
                   active, scores, composite_score, alert, labels, shown>>

\* for sensor in SENSORS: one iteration
DashFetchSensor ==
    /\ program = "dashboard" /\ pc = "fetch"
    /\ Len(sensors_data) < Len(SENSORS)
    /\ LET i == Len(sensors_data) + 1
           d == get_live_popularity(provider[i], day_of_week, hour)
       IN  /\ data' = d
           /\ sensors_data' = Append(sensors_data, sensor_entry(SENSORS[i], d))
    /\ UNCHANGED pizzaScore
    /\ UNCHANGED others
    /\ UNCHANGED <<program, SENSORS, day_of_week, hour, provider, pc,
                   active, scores, composite_score, alert, labels, shown>>

\* mutant: the sum of the active sensors' percentages over the whole roster
dash_composite_over_roster(sd) ==
    LET act == SelectSeq(sd, IsActive)
    IN  IF act # << >>
        THEN Some(LET t == FracSum([k \in 1 .. Len(act) |-> dash_pct(act[k])])
                  IN  Frac(t[1], t[2] * Len(sd)))
        ELSE None

\* composite_score of a sensors_data list: the mean over its active sensors
dash_composite(sd) ==
    LET act == SelectSeq(sd, IsActive)
    IN  IF act # << >> THEN Some(Mean([k \in 1 .. Len(act) |-> dash_pct(act[k])]))
        ELSE None

\* the composite score of get_data
DashComposite ==
    /\ program = "dashboard" /\ pc = "fetch"
    /\ Len(sensors_data) = Len(SENSORS)
    /\ LET act == SelectSeq([i \in 1 .. Len(sensors_data) |-> i],
                            LAMBDA i : IsActive(sensors_data[i]))
           sc  == [k \in 1 .. Len(act) |->
                     [of |-> act[k], pct |-> dash_pct(sensors_data[act[k]])]]
       IN  /\ active' = act
           /\ scores' = sc
           /\ composite_score' = dash_composite(sensors_data)
    /\ pc' = "respond"
    /\ UNCHANGED pizzaScore
    /\ UNCHANGED others
    /\ UNCHANGED <<program, SENSORS, day_of_week, hour, provider, data,
                   sensors_data, alert, labels, shown>>

\* const pizzaScore = data.composite_score !== null ? data.composite_score : 0
gauge_score(score) == IF score.js # "null" THEN score.v ELSE <<0, 1>>

\* the response reaches the page: refreshData calls updateAlertBanner and
\* renderSensorList
DashRender ==
    /\ program = "dashboard" /\ pc = "respond"
    /\ alert' = updateAlertBanner(Jsonify(composite_score))
    /\ labels' = [i \in 1 .. Len(sensors_data) |->
                    getAnomalyClass(Jsonify(sensors_data[i].current),
                                    Jsonify(sensors_data[i].usual))]
    /\ shown' = [i \in 1 .. Len(sensors_data) |->
                   getAnomalyText(Jsonify(sensors_data[i].current),
                                  Jsonify(sensors_data[i].usual))]
    /\ pizzaScore' = Some(gauge_score(Jsonify(composite_score)))
    /\ pc' = "done"
    /\ UNCHANGED others
    /\ UNCHANGED <<program, SENSORS, day_of_week, hour, provider, data,
                   sensors_data, active, scores, composite_score>>

-----------------------------------------------------------------------------
(* test_scraper.py: get_live_popularity, calculate_trend, generate_report *)

\* Every sensor of the roster carries an address, so the lookup is always made.
\* "day": populartimes[day_of_week]['name'] raises IndexError when populartimes
\* is non-empty and has no entry for today; except Exception catches it.
ts_get_live_popularity(answer, dow, h) ==
    IF answer.status = "raises" THEN [has_data |-> FALSE, error |-> "exception"]
    ELSE IF answer.status = "empty"
    THEN [has_data |-> FALSE, error |-> "No data returned from API"]
    ELSE IF answer.populartimes # << >> /\ Len(answer.populartimes) <= dow
    THEN [has_data |-> FALSE, error |-> "list index out of range"]
    ELSE [has_data           |-> TRUE,
          current_popularity |-> answer.current_popularity,
          usual_popularity   |-> usual_pop(answer.populartimes, dow, h),
          hour               |-> h]

\* mutant: a missing baseline is reported like a missing reading
calculate_trend_no_baseline_closed(current, usual) ==
    IF IsNone(current) \/ IsNone(usual) \/ Val(usual) = 0 THEN "CLOSED/NO DATA"
    ELSE LET pct_change == PctChange(Val(current), Val(usual))
         IN  IF FracGT(pct_change, 50) THEN "SPIKE!"
             ELSE IF FracGT(pct_change, 25) THEN "ELEVATED"
             ELSE IF FracGT(pct_change, 10) THEN "Above Normal"
             ELSE IF FracLT(pct_change, -25) THEN "Very Low"
             ELSE IF FracLT(pct_change, -10) THEN "Below Normal"
             ELSE "Normal"

\* the label part of the returned text
calculate_trend(current, usual) ==
    IF IsNone(current) THEN "CLOSED/NO DATA"
    ELSE IF IsNone(usual) \/ Val(usual) = 0 THEN "no baseline"
    ELSE LET pct_change == PctChange(Val(current), Val(usual))
         IN  IF FracGT(pct_change, 50) THEN "SPIKE!"
             ELSE IF FracGT(pct_change, 25) THEN "ELEVATED"
             ELSE IF FracGT(pct_change, 10) THEN "Above Normal"
             ELSE IF FracLT(pct_change, -25) THEN "Very Low"
             ELSE IF FracLT(pct_change, -10) THEN "Below Normal"
             ELSE "Normal"

\* the figure part of the returned text: none, "Live: <current>", or the
\* percentage formatted with .0f
calculate_trend_figure(current, usual) ==
    IF IsNone(current) THEN [kind |-> "closed"]
    ELSE IF IsNone(usual) \/ Val(usual) = 0 THEN [kind |-> "live", v |-> Val(current)]
    ELSE [kind |-> "pct", v |-> format0f(PctChange(Val(current), Val(usual)))]

\* one entry of sensor_results
ts_sensor_entry(sensor, d) ==
    IF Get(d, "has_data", FALSE)
    THEN [sensor         |-> sensor.name,
          role           |-> sensor.role,
          current        |-> Get(d, "current_popularity", None),
          usual          |-> Get(d, "usual_popularity", None),
          indicator_type |-> sensor.indicator_type]
    ELSE [sensor |-> sensor.name,
          role   |-> sensor.role,
          error  |-> Get(d, "error", None)]

\* pct of one sensor of pizza_anomaly_scores, inverted for inverse indicators
ts_pct(s) ==
    LET pct == PctChange(Val(s.current), Val(s.usual))
    IN  IF Get(s, "indicator_type", None) = "inverse" THEN FracNeg(pct) ELSE pct

\* the alert of the composite
ts_alert(avg_anomaly) ==
    IF FracGT(avg_anomaly, 50) THEN [title |-> "RED ALERT"]
    ELSE IF FracGT(avg_anomaly, 25) THEN [title |-> "ELEVATED"]
    ELSE IF FracGT(avg_anomaly, 10) THEN [title |-> "WATCH"]
    ELSE IF FracLT(avg_anomaly, -25) THEN [title |-> "QUIET"]
    ELSE [title |-> "NORMAL"]

\* for sensor in SENSORS: one iteration
ReportFetchSensor ==
    /\ program = "report" /\ pc = "fetch"
    /\ Len(sensors_data) < Len(SENSORS)
    /\ LET i == Len(sensors_data) + 1
           d == ts_get_live_popularity(provider[i], day_of_week, hour)
       IN  /\ data' = d
           /\ sensors_data' = Append(sensors_data, ts_sensor_entry(SENSORS[i], d))
           /\ labels' = Append(labels,
                               IF Get(d, "has_data", FALSE)
                               THEN calculate_trend(Get(d, "current_popularity", None),
                                                    Get(d, "usual_popularity", None))
                               ELSE "ERROR")
           /\ shown' = Append(shown,
                              IF Get(d, "has_data", FALSE)
                              THEN calculate_trend_figure(Get(d, "current_popularity", None),
                                                          Get(d, "usual_popularity", None))
                              ELSE [kind |-> "error"])
    /\ UNCHANGED pizzaScore
    /\ UNCHANGED others
    /\ UNCHANGED <<program, SENSORS, day_of_week, hour, provider, pc,
                   active, scores, composite_score, alert>>

\* avg_anomaly of a sensor_results list, None when nothing can be scored
ts_composite(sd) ==
    LET inc == SelectSeq(sd,
                         LAMBDA s : LET c == Get(s, "current", None)
                                        u == Get(s, "usual", None)
                                    IN  /\ ~IsNone(c)
                                        /\ ~IsNone(u) /\ Val(u) # 0 /\ Val(u) > 0)
    IN  IF inc # << >> THEN Some(Mean([k \in 1 .. Len(inc) |-> ts_pct(inc[k])]))
        ELSE None

\* the alert printed for avg_anomaly
ts_report_alert(score) ==
    IF IsNone(score) THEN [title |-> "Cannot calculate"] ELSE ts_alert(Val(score))

\* SECTION 3: COMPOSITE INDEX
ReportComposite ==
    /\ program = "report" /\ pc = "fetch"
    /\ Len(sensors_data) = Len(SENSORS)
    /\ LET act == SelectSeq([i \in 1 .. Len(sensors_data) |-> i],
                            LAMBDA i : ~IsNone(Get(sensors_data[i], "current", None)))
           inc == SelectSeq(act,
                            LAMBDA i : LET u == Get(sensors_data[i], "usual", None)
                                       IN  ~IsNone(u) /\ Val(u) # 0 /\ Val(u) > 0)
           sc  == [k \in 1 .. Len(inc) |->
                     [of |-> inc[k], pct |-> ts_pct(sensors_data[inc[k]])]]
       IN  /\ active' = act
           /\ scores' = sc
           /\ composite_score' = ts_composite(sensors_data)
           /\ alert' = ts_report_alert(ts_composite(sensors_data))
    /\ pc' = "done"
    /\ UNCHANGED pizzaScore
    /\ UNCHANGED others
    /\ UNCHANGED <<program, SENSORS, day_of_week, hour, provider, data,
                   sensors_data, labels, shown>>

-----------------------------------------------------------------------------
(* robust_scraper_poc.py: fetch_sensor_data, main *)

\* historical: 0 unless today's series has an entry for the hour
poc_historical(populartimes, dow, h) ==
    LET day_data == today_data(populartimes, dow)
    IN  IF Len(day_data) > h THEN day_data[h + 1] ELSE 0

poc_signal(current, historical) ==
    IF ~IsNone(current) /\ historical > 0
    THEN LET change == PctChange(Val(current), historical)
         IN  IF FracGT(change, 50) THEN "SPIKE DETECTED"
             ELSE IF FracGT(change, 25) THEN "ELEVATED"
             ELSE IF FracLT(change, -25) THEN "LOW ACTION"
             ELSE "NORMAL"
    ELSE IF IsNone(current) THEN "NO LIVE SIGNAL"
    ELSE "NORMAL"

\* the figure the report prints for an ONLINE sensor: the percentage inside
\* the signal (.0f), else the Live Busyness line ("N/A" without a reading)
poc_figure(current, historical) ==
    IF ~IsNone(current) /\ historical > 0
    THEN LET change == PctChange(Val(current), historical)
         IN  IF FracGT(change, 50) \/ FracGT(change, 25) \/ FracLT(change, -25)
             THEN [kind |-> "pct", v |-> format0f(change)]
             ELSE [kind |-> "live", v |-> Val(current)]
    ELSE IF IsNone(current) THEN [kind |-> "closed"]
    ELSE [kind |-> "live", v |-> Val(current)]

\* live is None where the code reports "N/A"
fetch_sensor_data(answer, dow, h) ==
    IF answer.status = "raises" THEN [status |-> "ERROR", reason |-> "exception"]
    ELSE IF answer.status = "empty"
    THEN [status |-> "OFFLINE", reason |-> "No data returned by Google"]
    ELSE LET historical == poc_historical(answer.populartimes, dow, h)
         IN  [status     |-> "ONLINE",
              live       |-> answer.current_popularity,
              historical |-> historical,
              signal     |-> poc_signal(answer.current_popularity, historical)]

\* for target in TARGETS: one iteration
PocFetchSensor ==
    /\ program = "poc" /\ pc = "fetch"
    /\ Len(sensors_data) < Len(SENSORS)
    /\ LET i == Len(sensors_data) + 1
           d == fetch_sensor_data(provider[i], day_of_week, hour)
       IN  /\ data' = d
           /\ sensors_data' = Append(sensors_data, d)
           /\ labels' = Append(labels, Get(d, "signal", d.status))
           /\ shown' = Append(shown,
                              IF d.status = "ONLINE" THEN poc_figure(d.live, d.historical)
                              ELSE [kind |-> "error"])
    /\ UNCHANGED pizzaScore
    /\ UNCHANGED others
    /\ UNCHANGED <<program, SENSORS, day_of_week, hour, provider, pc,
                   active, scores, composite_score, alert>>

\* print_report
PocReport ==
    /\ program = "poc" /\ pc = "fetch"
    /\ Len(sensors_data) = Len(SENSORS)
    /\ pc' = "done"
    /\ UNCHANGED pizzaScore
    /\ UNCHANGED others
    /\ UNCHANGED <<program, SENSORS, day_of_week, hour, provider, data,
                   sensors_data, active, scores, composite_score, alert, labels,
                   shown>>

-----------------------------------------------------------------------------
(* Market data: get_market_data of dashboard.py and test_scraper.py,        *)
(* fetch_market_data of robust_scraper_poc.py.  A price is a whole number   *)
(* of thousandths before rounding and of hundredths after round(x, 2).      *)

\* round(x, 2) of x thousandths, in hundredths
round2(x) == format0f(Frac(x, 10))

\* ticker.history(...): raises, or a frame of Close prices (empty or not)
HistoryRaises == [status |-> "raises"]

History(closes) == [status |-> "ok", Close |-> closes]

\* ticker.info: raises, or a dict whose regularMarketPrice may be missing
InfoRaises == [status |-> "raises"]

Info(price) == [status |-> "ok", regularMarketPrice |-> price]

Ticker(info, history) == [info |-> info, history |-> history]

\* one ticker's block of get_market_data: the price and the history list, or
\* nothing when history raises or the frame is empty
hist_block(t) ==
    IF t.history.status = "raises" \/ t.history.Close = << >>
    THEN [price |-> None, history |-> << >>, raised |-> t.history.status = "raises"]
    ELSE [price   |-> Some(round2(t.history.Close[Len(t.history.Close)])),
          history |-> [k \in 1 .. Len(t.history.Close) |-> round2(t.history.Close[k])],
          raised  |-> FALSE]

\* mutant: one try around both tickers, whose failure reaches the outer
\* except clause
get_market_data_one_try(yf, t) ==
    IF ~yf \/ hist_block(t["^VIX"]).raised \/ hist_block(t["GC=F"]).raised
    THEN [has_data |-> FALSE]
    ELSE [has_data     |-> TRUE,
          vix          |-> hist_block(t["^VIX"]).price,
          gold         |-> hist_block(t["GC=F"]).price,
          vix_history  |-> hist_block(t["^VIX"]).history,
          gold_history |-> hist_block(t["GC=F"]).history]

\* dashboard.py
get_market_data(yf, t) ==
    IF ~yf THEN [has_data |-> FALSE]
    ELSE [has_data     |-> TRUE,
          vix          |-> hist_block(t["^VIX"]).price,
          gold         |-> hist_block(t["GC=F"]).price,
          vix_history  |-> hist_block(t["^VIX"]).history,
          gold_history |-> hist_block(t["GC=F"]).history]

\* test_scraper.py
ts_get_market_data(yf, t) ==
    IF ~yf THEN [has_data |-> FALSE, error |-> "yfinance not installed"]
    ELSE [has_data |-> TRUE,
          vix      |-> hist_block(t["^VIX"]).price,
          gold     |-> hist_block(t["GC=F"]).price,
          errors   |-> (IF hist_block(t["^VIX"]).raised THEN <<"VIX">> ELSE << >>)
                       \o (IF hist_block(t["GC=F"]).raised THEN <<"Gold">> ELSE << >>)]

\* info.get('regularMarketPrice') or history(period='1d')['Close'].iloc[-1]:
\* the unrounded price, or None where the expression raises
poc_price(t) ==
    IF t.info.status = "raises" THEN None
    ELSE IF ~IsNone(t.info.regularMarketPrice) /\ Val(t.info.regularMarketPrice) # 0
    THEN t.info.regularMarketPrice
    ELSE IF t.history.status = "raises" \/ t.history.Close = << >> THEN None
    ELSE Some(t.history.Close[Len(t.history.Close)])

\* robust_scraper_poc.py: one try around both tickers
fetch_market_data(t) ==
    LET vix_price  == poc_price(t["^VIX"])
        gold_price == poc_price(t["GC=F"])
    IN  IF IsNone(vix_price) \/ IsNone(gold_price)
        THEN [vix |-> "Error", gold |-> "Error", msg |-> "exception"]
        ELSE [vix |-> Some(round2(Val(vix_price))), gold |-> Some(round2(Val(gold_price)))]

DashMarket ==
    /\ program = "dashboard" /\ pc = "market"
    /\ market' = get_market_data(yfinance, tickers)
    /\ pc' = "done"
    /\ UNCHANGED <<program, pipeline, yfinance, tickers, rng, req,
                   simulated, response, body, page, aligned>>

ReportMarket ==
    /\ program = "report" /\ pc = "market"
    /\ market' = ts_get_market_data(yfinance, tickers)
    /\ pc' = "done"
    /\ UNCHANGED <<program, pipeline, yfinance, tickers, rng, req,
                   simulated, response, body, page, aligned>>

PocMarket ==
    /\ program = "poc" /\ pc = "market"
    /\ market' = fetch_market_data(tickers)
    /\ pc' = "done"
    /\ UNCHANGED <<program, pipeline, yfinance, tickers, rng, req,
                   simulated, response, body, page, aligned>>

-----------------------------------------------------------------------------
(* dashboard.py: generate_simulated_historical_data inside get_data.  numpy's *)
(* global generator is shared by every request thread.  Its state is the    *)
(* sequence of draw calls made since the last seed(42); a draw returns the  *)
(* values the seeded stream holds at that state, so two draws return the    *)
(* same values exactly when made in the same state.  Before the first seed  *)
(* the generator holds operating-system entropy.                            *)

crisis_days == <<5, 12, 22>>

\* the draw calls of one generate_simulated_historical_data call, in order:
\* pizza_base, two uniforms per crisis day, vix_base, gold_base
draw_calls ==
    <<"normal">> \o [k \in 1 .. 2 * Len(crisis_days) |-> "uniform"] \o <<"normal", "normal">>

\* a request that has been received and has not yet reached the generator
Received == [pc |-> "seed", draws |-> << >>]

\* mutant: the generator is not re-seeded
seed_skipped(r) ==
    /\ r \in DOMAIN req /\ req[r].pc = "seed"
    /\ req' = [req EXCEPT ![r].pc = "draw"]
    /\ rng' = rng

\* np.random.seed(42)
seed(r) ==
    /\ r \in DOMAIN req /\ req[r].pc = "seed"
    /\ rng' = << >>
    /\ req' = [req EXCEPT ![r].pc = "draw"]

\* the next np.random.normal / np.random.uniform call of request r
draw(r) ==
    /\ r \in DOMAIN req /\ req[r].pc = "draw"
    /\ LET kind == draw_calls[Len(req[r].draws) + 1]
       IN  /\ req' = [req EXCEPT
                        ![r].draws = Append(@, [call |-> kind, state |-> rng]),
                        ![r].pc = IF Len(req[r].draws) + 1 = Len(draw_calls)
                                  THEN "respond" ELSE "draw"]
           /\ rng' = Append(rng, kind)

\* the series are built from the draws, correlation and spike_count from the
\* series, and jsonify returns them
respond(r) ==
    /\ r \in DOMAIN req /\ req[r].pc = "respond"
    /\ req' = [req EXCEPT ![r].pc = "done"]
    /\ UNCHANGED rng

\* no other request is between its seed and its response
alone(r) == \A o \in DOMAIN req \ {r} : req[o].pc \in {"seed", "done"}

\* the rest of the state is not touched by the generator's calls
rest == <<program, pc, pipeline, yfinance, tickers, market,
          simulated, response, body, page, aligned>>

\* the steps of the threaded server: any request may take its next step
Seed == (\E r \in DOMAIN req : seed(r)) /\ UNCHANGED rest

Draw == (\E r \in DOMAIN req : draw(r)) /\ UNCHANGED rest

Respond == (\E r \in DOMAIN req : respond(r)) /\ UNCHANGED rest

\* a caller that waits for each response before sending the next request
SeedAlone == (\E r \in DOMAIN req : alone(r) /\ seed(r)) /\ UNCHANGED rest

-----------------------------------------------------------------------------
(* dashboard.py: the correlation step of get_data, jsonify, and the page's  *)
(* response.json().  A series holds whole numbers.  A float is the record   *)
(* [kind |-> "nan"] or [kind |-> "number", v |-> thousandths].              *)

SpikeThreshold == 30

RECURSIVE Sum(_)
Sum(s) == IF s = << >> THEN 0 ELSE s[1] + Sum(Tail(s))

\* mutant: the proxy is not shifted
vix_arr_unlagged(h) == SubSeq(h.vix, 1, Len(h.vix) - 1)

\* mutant: a value of 30 counts as a spike
spike_count_inclusive(h) == Len(SelectSeq(h.pizza_index, LAMBDA v : v >= SpikeThreshold))

\* historical['pizza_index'][:-1] and historical['vix'][1:]
pizza_arr(h) == SubSeq(h.pizza_index, 1, Len(h.pizza_index) - 1)

vix_arr(h) == SubSeq(h.vix, 2, Len(h.vix))

\* n times the sum of the products of the deviations from the means
Deviations(x, y) ==
    Len(x) * Sum([k \in 1 .. Len(x) |-> x[k] * y[k]]) - Sum(x) * Sum(y)

\* round(r, 3) for r = c / sqrt(vx * vy), in thousandths
round3(c, vx, vy) ==
    LET a == 4000000 * c * c
        d == vx * vy
        k == CHOOSE k \in 0 .. 1000 :
               /\ (k = 0 \/ (2 * k - 1) * (2 * k - 1) * d <= a)
               /\ (k = 1000 \/ a < (2 * k + 1) * (2 * k + 1) * d)
    IN  IF c < 0 THEN -k ELSE k

\* round(np.corrcoef(x, y)[0, 1], 3): 0/0 gives nan with a warning, and
\* round(nan, 3) is nan
corrcoef(x, y) ==
    LET c  == Deviations(x, y)
        vx == Deviations(x, x)
        vy == Deviations(y, y)
    IN  IF vx = 0 \/ vy = 0 THEN [kind |-> "nan"]
        ELSE [kind |-> "number", v |-> round3(c, vx, vy)]

\* sum(1 for v in historical['pizza_index'] if v > 30)
spike_count(h) == Len(SelectSeq(h.pizza_index, LAMBDA v : v > SpikeThreshold))

\* json.dumps of a float: allow_nan is on, so nan is written as the token NaN
dumps_float(f) ==
    IF f.kind = "nan" THEN [js |-> "NaN"] ELSE [js |-> "number", v |-> f.v]

\* JSON.parse: NaN is not a JSON token
json_parse(b) ==
    IF \E key \in DOMAIN b : b[key].js = "NaN" THEN [status |-> "SyntaxError"]
    ELSE [status |-> "ok", data |-> b]

\* correlation and spike_count of get_data
Correlate ==
    /\ pc = "correlate"
    /\ response' = [correlation |-> corrcoef(pizza_arr(simulated), vix_arr(simulated)),
                    spike_count |-> spike_count(simulated)]
    /\ aligned' = [pizza_arr |-> pizza_arr(simulated), vix_arr |-> vix_arr(simulated)]
    /\ pc' = "jsonify"
    /\ UNCHANGED <<program, pipeline, yfinance, tickers, market, rng, req,
                   simulated, body, page>>

\* return jsonify({...})
JsonifyResponse ==
    /\ pc = "jsonify"
    /\ body' = [correlation |-> dumps_float(response.correlation),
                spike_count |-> [js |-> "number", v |-> response.spike_count]]
    /\ pc' = "sent"
    /\ UNCHANGED <<program, pipeline, yfinance, tickers, market, rng, req,
                   simulated, response, page, aligned>>

\* const data = await response.json()
ResponseJson ==
    /\ pc = "sent"
    /\ page' = json_parse(body)
    /\ pc' = "done"
    /\ UNCHANGED <<program, pipeline, yfinance, tickers, market, rng, req,
                   simulated, response, body, aligned>>

-----------------------------------------------------------------------------
(* dashboard.py: one whole refresh, get_data with its market fetch between   *)
(* the sensor loop and the composite, then the page                          *)

\* market_data = get_market_data(), after the sensor loop
CycleMarket ==
    /\ program = "dashboard" /\ pc = "fetch"
    /\ Len(sensors_data) = Len(SENSORS)
    /\ market = << >>
    /\ market' = get_market_data(yfinance, tickers)
    /\ UNCHANGED <<program, pc, pipeline, yfinance, tickers, rng, req,
                   simulated, response, body, page, aligned>>

\* the composite score, once the market data is there
CycleComposite == market # << >> /\ DashComposite

-----------------------------------------------------------------------------
(* Specifications *)

Programs == {"dashboard", "report", "poc"}

\* the configured sensor at position i with role r; the report's rosters give
\* an Inverse sensor the indicator_type "inverse"
Sensor(i, r) ==
    [name |-> i, role |-> r,
     indicator_type |-> IF r = "Inverse" THEN "inverse" ELSE "pizza_spike"]

Rosters == UNION { { [i \in 1 .. n |-> Sensor(i, f[i])] : f \in [1 .. n -> Roles] }
                 : n \in 0 .. MaxSensors }

Fresh ==
    /\ pc = "fetch"
    /\ data = [has_data |-> FALSE, error |-> "not fetched"]
    /\ sensors_data = << >>
    /\ active = << >>
    /\ scores = << >>
    /\ composite_score = None
    /\ alert = [title |-> "unset"]
    /\ labels = << >>
    /\ shown = << >>
    /\ pizzaScore = None

\* nothing outside the sensor pipeline has run
OthersIdle ==
    /\ yfinance = TRUE
    /\ tickers = << >>
    /\ market = << >>
    /\ rng = <<"entropy">>
    /\ req = << >>
    /\ simulated = << >>
    /\ CorrIdle

\* The pipeline: every program over every roster, the readings around one hour.
PipeDays == {2}

PipeHours == {12}

PipeCurrents == {None, Some(0), Some(40), Some(85), Some(100), Some(150)}

PipeToday(h) == SeriesFamily({0, 24}, {h}, {80, 100})

PipePrev == [k \in 1 .. 24 |-> IF k - 1 = 20 THEN 40 ELSE 0]

PipeAnswers(dow, h) ==
    {Raises, Empty}
    \cup { Answer(c, Week(DaysPerWeek, dow, t, PipePrev)) :
             c \in PipeCurrents, t \in PipeToday(h) }

Init ==
    /\ program \in Programs
    /\ SENSORS \in Rosters
    /\ day_of_week \in PipeDays
    /\ hour \in PipeHours
    /\ provider \in [1 .. Len(SENSORS) -> PipeAnswers(day_of_week, hour)]
    /\ Fresh
    /\ OthersIdle

Next ==
    \/ DashFetchSensor
    \/ DashComposite
    \/ DashRender
    \/ ReportFetchSensor
    \/ ReportComposite
    \/ PocFetchSensor
    \/ PocReport

Spec == Init /\ [][Next]_vars

\* The market fetch alone: every program over every pair of ticker answers.
Symbols == {"^VIX", "GC=F"}

MarketCloses == {<< >>, <<18234>>, <<17005, 18237>>}

MarketInfos == {InfoRaises, Info(None), Info(Some(0)), Info(Some(18239))}

MarketHistories == {HistoryRaises} \cup {History(c) : c \in MarketCloses}

MarketTickers == {Ticker(i, h) : i \in MarketInfos, h \in MarketHistories}

\* the sensor pipeline has not run
PipelineIdle ==
    /\ SENSORS = << >>
    /\ day_of_week \in PipeDays
    /\ hour \in PipeHours
    /\ provider = << >>
    /\ data = [has_data |-> FALSE, error |-> "not fetched"]
    /\ sensors_data = << >>
    /\ active = << >>
    /\ scores = << >>
    /\ composite_score = None
    /\ alert = [title |-> "unset"]
    /\ labels = << >>
    /\ shown = << >>
    /\ pizzaScore = None

\* robust_scraper_poc.py imports yfinance at module level, so it runs only
\* where the import succeeds
InitMarket ==
    /\ program \in Programs
    /\ pc = "market"
    /\ PipelineIdle
    /\ yfinance \in (IF program = "poc" THEN {TRUE} ELSE BOOLEAN)
    /\ tickers \in [Symbols -> MarketTickers]
    /\ market = << >>
    /\ rng = <<"entropy">>
    /\ req = << >>
    /\ simulated = << >>
    /\ CorrIdle

NextMarket ==
    \/ DashMarket
    \/ ReportMarket
    \/ PocMarket

SpecMarket == InitMarket /\ [][NextMarket]_vars

\* The simulated history: requests to /api/data of the threaded server.  The
\* generator holds entropy at start-up, or what an earlier request left.
ServerIdle ==
    /\ program = "dashboard"
    /\ pc = "serve"
    /\ PipelineIdle
    /\ yfinance = TRUE
    /\ tickers = << >>
    /\ market = << >>
    /\ rng \in {<<"entropy">>, draw_calls}
    /\ simulated = << >>
    /\ CorrIdle

\* two requests whose steps interleave in any order
InitConc == ServerIdle /\ req = [r \in {1, 2} |-> Received]

NextConc ==
    \/ Seed
    \/ Draw
    \/ Respond

SpecConc == InitConc /\ [][NextConc]_vars

\* three requests, each sent after the response to the one before
InitSeq == ServerIdle /\ req = [r \in {1, 2, 3} |-> Received]

NextSeq ==
    \/ SeedAlone
    \/ Draw
    \/ Respond

SpecSeq == InitSeq /\ [][NextSeq]_vars

\* The correlation step alone, as a function of the two series: every pair of
\* series of one length over the values below.  (The series get_data passes
\* in is the seeded simulation of 30 points.)
CorrLengths == {3, 4}

PizzaValues == {29, 30, 31}

VixValues == {18, 19}

InitCorr ==
    /\ program = "dashboard"
    /\ pc = "correlate"
    /\ PipelineIdle
    /\ yfinance = TRUE
    /\ tickers = << >>
    /\ market = << >>
    /\ rng = draw_calls
    /\ req = << >>
    /\ \E n \in CorrLengths :
          simulated \in [pizza_index : [1 .. n -> PizzaValues], vix : [1 .. n -> VixValues]]
    /\ CorrIdle

NextCorr ==
    \/ Correlate
    \/ JsonifyResponse
    \/ ResponseJson

SpecCorr == InitCorr /\ [][NextCorr]_vars

\* The normalizer alone: one sensor of the dashboard, every clock and series of
\* the families below.
NormDays == {0, 1, 3, 6}

NormHours == {0, 4, 5, 17, 18, 23}

NormWeekLens == {0, 3, 7}

NormCurrents == {None, Some(0), Some(55)}

NormToday == SeriesFamily({0, 5, 24}, {0, 4, 18}, {30, 60})

NormPrev == SeriesFamily({0, 18, 19, 24}, {17, 18, 23}, {20, 70})

NormAnswers(dow) ==
    {Raises, Empty}
    \cup { Answer(c, Week(n, dow, t, p)) :
             c \in NormCurrents, n \in NormWeekLens, t \in NormToday, p \in NormPrev }

InitNorm ==
    /\ program = "dashboard"
    /\ SENSORS = <<Sensor(1, "Primary")>>
    /\ day_of_week \in NormDays
    /\ hour \in NormHours
    /\ provider \in [1 .. 1 -> NormAnswers(day_of_week)]
    /\ Fresh
    /\ OthersIdle

NextNorm == DashFetchSensor

SpecNorm == InitNorm /\ [][NextNorm]_vars

\* One whole refresh of the dashboard over two sensors: failed calls, missing
\* populartimes, weeks without today, empty and short hourly series, closed
\* sensors, and every way the two tickers fail.
CycleDay == {3}

CycleHour == {12}

CycleToday == SeriesFamily({0, 5, 24}, {4, 12}, {60})

CycleAnswers(dow) ==
    {Raises, Empty}
    \cup { Answer(c, Week(n, dow, t, << >>)) :
             c \in {None, Some(55)}, n \in {0, 3, DaysPerWeek}, t \in CycleToday }

CycleTickers ==
    {Ticker(InfoRaises, HistoryRaises), Ticker(InfoRaises, History(<< >>)),
     Ticker(InfoRaises, History(<<18234>>))}

InitCycle ==
    /\ program = "dashboard"
    /\ SENSORS = <<Sensor(1, "Primary"), Sensor(2, "Inverse")>>
    /\ day_of_week \in CycleDay
    /\ hour \in CycleHour
    /\ provider \in [1 .. 2 -> CycleAnswers(day_of_week)]
    /\ Fresh
    /\ yfinance \in BOOLEAN
    /\ tickers \in [Symbols -> CycleTickers]
    /\ market = << >>
    /\ rng = <<"entropy">>
    /\ req = << >>
    /\ simulated = << >>
    /\ CorrIdle

NextCycle ==
    \/ DashFetchSensor
    \/ CycleMarket
    \/ CycleComposite
    \/ DashRender

SpecCycle == InitCycle /\ [][NextCycle]_vars

\* The report's normalizer alone: one sensor, the same clocks and answers.
InitReportNorm ==
    /\ program = "report"
    /\ SENSORS = <<Sensor(1, "Primary")>>
    /\ day_of_week \in NormDays
    /\ hour \in NormHours
    /\ provider \in [1 .. 1 -> NormAnswers(day_of_week)]
    /\ Fresh
    /\ OthersIdle

NextReportNorm == ReportFetchSensor

SpecReportNorm == InitReportNorm /\ [][NextReportNorm]_vars

\* The normalizer in front of the dashboard's aggregator: a first sensor with
\* every answer of the normalizer's families, and a second one that is live
\* at 90 against a baseline of 60 all day.
SteadyAnswer(dow) ==
    Answer(Some(90), Week(DaysPerWeek, dow, [k \in 1 .. 24 |-> 60], << >>))

InitImpute ==
    /\ program = "dashboard"
    /\ SENSORS = <<Sensor(1, "Primary"), Sensor(2, "Primary")>>
    /\ day_of_week \in NormDays
    /\ hour \in NormHours
    /\ provider \in {<<a, SteadyAnswer(day_of_week)>> : a \in NormAnswers(day_of_week)}
    /\ Fresh
    /\ OthersIdle

NextImpute ==
    \/ DashFetchSensor
    \/ DashComposite

SpecImpute == InitImpute /\ [][NextImpute]_vars

-----------------------------------------------------------------------------
(* The normalizer's arguments and result, as the claims name them.  The    *)
(* result is data, the return value of the last call; its arguments are    *)
(* the provider's answer to that call and the clock.                       *)

Max(S) == CHOOSE x \in S : \A y \in S : y <= x

LastAnswer == provider[Len(sensors_data)]

\* the dashboard's normalizer has returned for an answer that carries data
NormReturned ==
    /\ program = "dashboard"
    /\ sensors_data # << >>
    /\ LastAnswer.status = "ok"

ArgCurrent == LastAnswer.current_popularity

\* today's hourly series: empty when populartimes has no entry for today
ArgToday ==
    LET pt == LastAnswer.populartimes
    IN  IF Len(pt) > day_of_week THEN pt[day_of_week + 1] ELSE << >>

\* the previous day of Monday (0) is Sunday (6)
ArgPrevDay == IF day_of_week = 0 THEN 6 ELSE day_of_week - 1

ArgPrevSupplied == Len(LastAnswer.populartimes) > ArgPrevDay

ArgPrev == IF ArgPrevSupplied THEN LastAnswer.populartimes[ArgPrevDay + 1] ELSE << >>

\* the hours at or before current_hour with a strictly positive entry today
TodayHits == {h \in 0 .. hour : h < Len(ArgToday) /\ ArgToday[h + 1] > 0}

\* the hours 18..23 of the previous day with a strictly positive entry
EveningHits == {h \in 18 .. 23 : h < Len(ArgPrev) /\ ArgPrev[h + 1] > 0}

\* the result is the series' entry at hour h, flagged as imputed from h
ImputedFrom(series, h) ==
    /\ data.current_popularity = Some(series[h + 1])
    /\ data.is_fallback = TRUE
    /\ data.fallback_hour = Some(h)

\* C2: with no live value and a strictly positive entry of today's series at an
\* index <= min(current_hour, len-1), the normalizer returns the entry at the
\* largest such index, flagged as imputed with that index as the imputed hour,
\* whatever the previous day's series holds.
C2_BackwardScan ==
    (NormReturned /\ IsNone(ArgCurrent) /\ TodayHits # {})
        => ImputedFrom(ArgToday, Max(TodayHits))

\* C2's case: the clock is beyond the end of today's series, two entries are
\* positive, the previous day's evening is positive too, and the later of
\* today's two is returned.
C2_Witness ==
    /\ NormReturned /\ IsNone(ArgCurrent)
    /\ hour >= Len(ArgToday)
    /\ Cardinality(TodayHits) >= 2
    /\ ArgToday[1] # ArgToday[Max(TodayHits) + 1]
    /\ EveningHits # {}
    /\ data.fallback_hour = Some(Len(ArgToday) - 1)

\* C3 as stated: with no live value, no strictly positive entry of today's
\* series (of any length, the empty one included) at an index <= current_hour,
\* and a previous day with a strictly positive entry in hours 18..23, the
\* normalizer returns the previous day's entry at the largest such hour,
\* flagged as imputed from that hour.
C3_PreviousDayFallback ==
    (NormReturned /\ IsNone(ArgCurrent) /\ TodayHits = {} /\ EveningHits # {})
        => ImputedFrom(ArgPrev, Max(EveningHits))

\* C4: a present live value, 0 included, is returned unchanged with the
\* fallback flag false and no imputed hour.
C4_LivePassThrough ==
    (NormReturned /\ ~IsNone(ArgCurrent))
        => /\ data.current_popularity = ArgCurrent
           /\ data.is_fallback = FALSE
           /\ IsNone(data.fallback_hour)

\* C4's case: a live 0 while today's and the previous day's series hold
\* positive entries the search would find.
C4_Witness ==
    /\ NormReturned
    /\ ArgCurrent = Some(0)
    /\ TodayHits # {} /\ EveningHits # {}
    /\ data.current_popularity = Some(0)

\* C5: a value flagged as imputed is > 0 and is the entry at imputed_hour of
\* today's series (imputed_hour <= current_hour) or of the previous day's
\* series (imputed_hour in 18..23).
C5_ImputedValue ==
    (NormReturned /\ data.is_fallback)
        => /\ ~IsNone(data.current_popularity)
           /\ ~IsNone(data.fallback_hour)
           /\ Val(data.current_popularity) > 0
           /\ LET v == Val(data.current_popularity)
                  h == Val(data.fallback_hour)
              IN  \/ h <= hour /\ h < Len(ArgToday) /\ ArgToday[h + 1] = v
                  \/ h \in 18 .. 23 /\ h < Len(ArgPrev) /\ ArgPrev[h + 1] = v

\* C5's case: a value imputed from the previous day's evening, and one imputed
\* from today, are both reached; this is the former, past a zero at hour 23.
C5_Witness ==
    /\ NormReturned /\ data.is_fallback
    /\ TodayHits = {}
    /\ Len(ArgPrev) = 24 /\ ArgPrev[24] = 0
    /\ data.fallback_hour = Some(18)

\* C6: with no live value, no strictly positive entry of today's series at or
\* before current_hour and no previous day with a strictly positive entry in
\* hours 18..23, the normalizer returns no current value, the fallback flag
\* false and no imputed hour.
C6_Unavailable ==
    (NormReturned /\ IsNone(ArgCurrent) /\ TodayHits = {} /\ EveningHits = {})
        => /\ IsNone(data.current_popularity)
           /\ data.is_fallback = FALSE
           /\ IsNone(data.fallback_hour)

\* C6's case: today is all zeros up to the clock (with a positive entry after
\* it) and the previous day is positive only before 18.
C6_Witness ==
    /\ NormReturned /\ IsNone(ArgCurrent)
    /\ TodayHits = {} /\ EveningHits = {}
    /\ Len(ArgToday) = 24 /\ ArgToday[19] > 0
    /\ Len(ArgPrev) = 24 /\ ArgPrev[18] > 0
    /\ IsNone(data.current_popularity)

-----------------------------------------------------------------------------
(* The readings of a finished cycle, as the claims name them *)

Finished == pc = "done"

Positions == 1 .. Len(sensors_data)

\* the current value and the baseline the site scores sensor i with
SiteCurrent(i) ==
    IF program = "poc" THEN Get(sensors_data[i], "live", None)
    ELSE Get(sensors_data[i], "current", None)

SiteBaseline(i) ==
    IF program = "poc"
    THEN (IF "historical" \in DOMAIN sensors_data[i]
          THEN Some(sensors_data[i].historical) ELSE None)
    ELSE Get(sensors_data[i], "usual", None)

\* a present current value and a baseline > 0
Usable(i) ==
    /\ ~IsNone(SiteCurrent(i))
    /\ ~IsNone(SiteBaseline(i))
    /\ Val(SiteBaseline(i)) > 0

Included == {i \in Positions : Usable(i)}

IncludedSeq == SelectSeq([i \in 1 .. Len(sensors_data) |-> i], LAMBDA i : Usable(i))

IsInverse(i) == SENSORS[i].role = "Inverse"

\* (current - baseline) / baseline * 100
RawPct(i) == Frac((Val(SiteCurrent(i)) - Val(SiteBaseline(i))) * 100, Val(SiteBaseline(i)))

\* the same, negated for a sensor of inverse polarity
SignedPct(i) == IF IsInverse(i) THEN <<-RawPct(i)[1], RawPct(i)[2]>> ELSE RawPct(i)

SignedMean == Mean([k \in 1 .. Len(IncludedSeq) |-> SignedPct(IncludedSeq[k])])

RawMean == Mean([k \in 1 .. Len(IncludedSeq) |-> RawPct(IncludedSeq[k])])

ScoredSet == {scores[k].of : k \in 1 .. Len(scores)}

\* the tier a shown alert stands for
Tier ==
    CASE alert.title \in {"SENSORS OFFLINE", "Cannot calculate"} -> "offline"
      [] alert.title \in {"RED ALERT - ANOMALY DETECTED", "RED ALERT"} -> "critical"
      [] alert.title \in {"ELEVATED ACTIVITY", "ELEVATED"} -> "elevated"
      [] alert.title \in {"NORMAL OPERATIONS", "NORMAL"} -> "normal"
      [] alert.title = "WATCH" -> "watch"
      [] alert.title = "QUIET" -> "quiet"
      [] OTHER -> "none"

\* the four tiers by the score alone
FourTiers(score) ==
    IF IsNone(score) THEN "offline"
    ELSE IF FracGT(Val(score), 50) THEN "critical"
    ELSE IF FracGT(Val(score), 25) THEN "elevated"
    ELSE "normal"

\* the report's tiers
ReportTiers(score) ==
    IF IsNone(score) THEN "offline"
    ELSE IF FracGT(Val(score), 50) THEN "critical"
    ELSE IF FracGT(Val(score), 25) THEN "elevated"
    ELSE IF FracGT(Val(score), 10) THEN "watch"
    ELSE IF FracLT(Val(score), -25) THEN "quiet"
    ELSE "normal"

\* the label a shown per-sensor text stands for
LabelOf(text) ==
    CASE text \in {"anomaly-spike", "SPIKE!", "SPIKE DETECTED"} -> "spike"
      [] text \in {"anomaly-high", "ELEVATED"} -> "elevated"
      [] text \in {"anomaly-low", "Very Low", "LOW ACTION"} -> "low"
      [] text \in {"anomaly-normal", "Normal", "NORMAL"} -> "normal"
      [] text \in {"anomaly-closed", "CLOSED/NO DATA", "NO LIVE SIGNAL"} -> "closed"
      [] text = "Above Normal" -> "above normal"
      [] text = "Below Normal" -> "below normal"
      [] OTHER -> text

\* the four labels by the percentage alone
FourLabels(pct) ==
    IF FracGT(pct, 50) THEN "spike"
    ELSE IF FracGT(pct, 25) THEN "elevated"
    ELSE IF FracLT(pct, -25) THEN "low"
    ELSE "normal"

\* the report's labels
ReportLabels(pct) ==
    IF FracGT(pct, 50) THEN "spike"
    ELSE IF FracGT(pct, 25) THEN "elevated"
    ELSE IF FracGT(pct, 10) THEN "above normal"
    ELSE IF FracLT(pct, -25) THEN "low"
    ELSE IF FracLT(pct, -10) THEN "below normal"
    ELSE "normal"

\* C1 as stated: whenever some sensor has a present current value and a
\* baseline > 0, the composite score of the dashboard and of the report is the
\* mean, over exactly those sensors, of (current - baseline) / baseline * 100,
\* negated for the sensors of inverse polarity.
C1_CompositeIsSignedMean ==
    (Finished /\ program \in {"dashboard", "report"} /\ Included # {})
        => composite_score = Some(SignedMean)

\* C7: a sensor enters the composite exactly when its current value is present
\* and its baseline is present and > 0; with no such sensor the composite score
\* is absent (null in the response) and the tier is offline.
C7_FilterAndOffline ==
    (Finished /\ program \in {"dashboard", "report"})
        => /\ ScoredSet = Included
           /\ Len(scores) = Cardinality(Included)
           /\ program = "dashboard" => {active[k] : k \in 1 .. Len(active)} = Included
           /\ Included = {}
                => /\ IsNone(composite_score)
                   /\ Jsonify(composite_score).js = "null"
                   /\ Tier = "offline"
           /\ Included # {} => ~IsNone(composite_score) /\ Tier # "offline"

\* C7's case: a dashboard cycle over two sensors, one whose provider failed and
\* one read live at 0 with a baseline of 0: nothing is included.
C7_Witness ==
    /\ Finished /\ program = "dashboard"
    /\ Len(sensors_data) = 2
    /\ provider[1].status = "raises"
    /\ sensors_data[2].current = Some(0) /\ sensors_data[2].usual = Some(0)
    /\ IsNone(composite_score)
    /\ alert.title = "SENSORS OFFLINE"

C9_ScorerPercentage ==
    (Finished /\ program \in {"dashboard", "report"})
        => \A k \in 1 .. Len(scores) : scores[k].pct = SignedPct(scores[k].of)

-----------------------------------------------------------------------------
(* The scorer's labels and shown percentages *)

\* C11 as stated: the label of a sensor of inverse polarity is taken from the
\* negated percentage: far below its baseline (raw pct < -50) it is labelled
\* spike, above its baseline (raw pct > 25) it is labelled low.
C11_InverseLabel ==
    Finished
        => \A i \in Included :
              IsInverse(i)
                => /\ FracLT(RawPct(i), -50) => LabelOf(labels[i]) = "spike"
                   /\ FracGT(RawPct(i), 25) => LabelOf(labels[i]) = "low"

\* the scorer ran for sensor i: a failed fetch is reported as ERROR or OFFLINE
\* by the report and the proof of concept without calling it
Scored(i) ==
    CASE program = "report" -> "error" \notin DOMAIN sensors_data[i]
      [] program = "poc" -> sensors_data[i].status = "ONLINE"
      [] OTHER -> TRUE

NoReading(i) == Scored(i) /\ IsNone(SiteCurrent(i))

NoBaseline(i) ==
    /\ Scored(i) /\ ~IsNone(SiteCurrent(i))
    /\ (IsNone(SiteBaseline(i)) \/ Val(SiteBaseline(i)) = 0)

\* C12: a scored sensor without a current value is labelled closed and shows
\* no percentage, so it differs from a sensor that sits exactly on its
\* baseline (0% deviation) in both the label and the figure.
C12_Closed ==
    Finished
      => /\ \A i \in Positions :
               NoReading(i) => LabelOf(labels[i]) = "closed" /\ shown[i] = [kind |-> "closed"]
         /\ \A i, j \in Positions :
               NoReading(i) /\ Usable(j) /\ RawPct(j) = <<0, 1>>
                 => LabelOf(labels[i]) # LabelOf(labels[j]) /\ shown[i] # shown[j]

\* a closed sensor stands next to one at 0% deviation
C12_Witness ==
    /\ Finished
    /\ \E i, j \in Positions :
          /\ NoReading(i) /\ shown[i].kind = "closed"
          /\ Usable(j) /\ RawPct(j) = <<0, 1>>

\* C13 as stated: a scored sensor with a current value and no usable baseline
\* is labelled normal at every site, and its current value is shown in place
\* of a percentage.
C13_NormalEverywhere ==
    Finished
      => \A i \in Positions :
            NoBaseline(i)
              => /\ LabelOf(labels[i]) = "normal"
                 /\ shown[i] = [kind |-> "live", v |-> Val(SiteCurrent(i))]

\* C13 amended: such a sensor is never labelled closed and shows its current
\* value in place of a percentage; the dashboard and the proof of concept
\* label it normal, the report labels it "no baseline".
C13_NoBaseline ==
    Finished
      => \A i \in Positions :
            NoBaseline(i)
              => /\ LabelOf(labels[i]) # "closed"
                 /\ shown[i] = [kind |-> "live", v |-> Val(SiteCurrent(i))]
                 /\ LabelOf(labels[i]) =
                       (IF program = "report" THEN "no baseline" ELSE "normal")

\* a live reading of 0 without a baseline has been labelled by the report
C13_Witness ==
    /\ Finished /\ program = "report"
    /\ \E i \in Positions :
          NoBaseline(i) /\ Val(SiteCurrent(i)) = 0 /\ labels[i] = "no baseline"

-----------------------------------------------------------------------------
(* The aggregator's frame, the sensor list and provider failures *)

\* s without its i-th entry
Remove(s, i) == SubSeq(s, 1, i - 1) \o SubSeq(s, i + 1, Len(s))

Aggregates == program \in {"dashboard", "report"}

\* the composite and the alert the program gives a sensor list
CompositeOf(sd) == IF program = "dashboard" THEN dash_composite(sd) ELSE ts_composite(sd)

AlertOf(score) ==
    IF program = "dashboard" THEN updateAlertBanner(Jsonify(score))
    ELSE ts_report_alert(score)

\* C14: a sensor without a current value, or without a baseline > 0, does not
\* affect the composite: the roster without it has the same composite score
\* and the same alert tier.
C14_ExcludedFrame ==
    Finished /\ Aggregates
      => \A i \in Positions :
            ~Usable(i)
              => /\ CompositeOf(Remove(sensors_data, i)) = composite_score
                 /\ AlertOf(CompositeOf(Remove(sensors_data, i))) = alert

\* the roster [(150, 100), (None, 80)] of two Primary sensors: composite 50
C14_Witness ==
    /\ Finished /\ program = "report" /\ Len(sensors_data) = 2
    /\ ~IsInverse(1) /\ ~IsInverse(2)
    /\ SiteCurrent(1) = Some(150) /\ SiteBaseline(1) = Some(100)
    /\ SiteCurrent(2) = None /\ SiteBaseline(2) = Some(80)
    /\ composite_score = Some(<<50, 1>>)
    /\ Tier = "elevated"

\* the entry the running program makes for sensor i from the provider's answer
\* for that sensor alone
EntryOf(i) ==
    CASE program = "dashboard" ->
           sensor_entry(SENSORS[i], get_live_popularity(provider[i], day_of_week, hour))
      [] program = "report" ->
           ts_sensor_entry(SENSORS[i], ts_get_live_popularity(provider[i], day_of_week, hour))
      [] OTHER -> fetch_sensor_data(provider[i], day_of_week, hour)

\* the sensor an entry names (the proof of concept's entries carry no name and
\* are matched to TARGETS by position)
NameOf(e) ==
    IF "name" \in DOMAIN e THEN Some(e.name)
    ELSE IF "sensor" \in DOMAIN e THEN Some(e.sensor)
    ELSE None

Failed(i) == provider[i].status \in {"raises", "empty"}

\* C15: after an invocation over a roster of n sensors the sensor list has
\* exactly n entries, and so has the list of shown labels; the i-th entry names
\* the i-th sensor of the roster and holds the readings of that sensor's
\* answer, whether the sensor is closed, without baseline or failed.
C15_OrderAndCompleteness ==
    Finished
      => /\ Len(sensors_data) = Len(SENSORS)
         /\ Len(labels) = Len(SENSORS)
         /\ Len(shown) = Len(SENSORS)
         /\ \A i \in 1 .. Len(SENSORS) :
               /\ NameOf(sensors_data[i]) \in {None, Some(SENSORS[i].name)}
               /\ program # "poc" => NameOf(sensors_data[i]) # None
               /\ sensors_data[i] = EntryOf(i)

\* a failed sensor first, a closed one of the other role second
C15_Witness ==
    /\ Finished /\ Len(SENSORS) = 2
    /\ Failed(1) /\ ~Failed(2)
    /\ SENSORS[1].role # SENSORS[2].role
    /\ Scored(2) /\ IsNone(SiteCurrent(2))
    /\ sensors_data[1] # sensors_data[2]

\* C16: a sensor whose provider raised or returned nothing is reported with no
\* current value and no baseline, the invocation still finishes, and every
\* other sensor's entry is the one its own answer gives.
C16_FailureAbsorbed ==
    Finished
      => \A i \in Positions :
            Failed(i)
              => /\ IsNone(SiteCurrent(i)) /\ IsNone(SiteBaseline(i))
                 /\ \A j \in Positions \ {i} : sensors_data[j] = EntryOf(j)

\* one provider call raised and the invocation finished with a usable reading
\* for the other sensor
C16_Witness ==
    /\ Finished /\ Len(SENSORS) = 2
    /\ \E i, j \in Positions :
          /\ provider[i].status = "raises"
          /\ ~Failed(j) /\ Usable(j)

-----------------------------------------------------------------------------
(* Market data *)

MarketDone == pc = "done" /\ market # << >>

\* what the running program's fetch of one ticker alone gives: its rounded
\* price, or None when the fetch fails
FetchedAlone(sym) ==
    IF program = "poc"
    THEN (IF IsNone(poc_price(tickers[sym])) THEN None
          ELSE Some(round2(Val(poc_price(tickers[sym])))))
    ELSE hist_block(tickers[sym]).price

\* the price the result carries for a ticker, None when it carries none
Reported(sym) ==
    LET key == IF sym = "^VIX" THEN "vix" ELSE "gold"
    IN  IF "msg" \in DOMAIN market THEN None ELSE Get(market, key, None)

\* C17 as stated: when the fetch of one ticker fails and the other succeeds,
\* the result carries the other ticker's price and no price for the failed one.
C17_MarketIsolation ==
    MarketDone /\ yfinance
      => \A failed \in Symbols : \A other \in Symbols \ {failed} :
            IsNone(FetchedAlone(failed)) /\ ~IsNone(FetchedAlone(other))
              => /\ Reported(other) = FetchedAlone(other)
                 /\ IsNone(Reported(failed))

-----------------------------------------------------------------------------
(* The simulated history *)

\* the draws of a request that runs alone: the k-th call is made in the state
\* the calls before it leave after seed(42)
SoloDraws ==
    [k \in 1 .. Len(draw_calls) |->
       [call |-> draw_calls[k], state |-> SubSeq(draw_calls, 1, k - 1)]]

Responded(r) == req[r].pc = "done"

\* C18 as stated: whatever the interleaving of two concurrent requests, each
\* returns the historical series (and so the correlation and the spike count)
\* it returns when run alone.
C18_ConcurrentIndependent ==
    \A r \in DOMAIN req : Responded(r) => req[r].draws = SoloDraws

\* C19: requests made one after another all return the series of the
\* seed-42 stream, the first as well as every later one, whatever the
\* generator held before.
C19_Deterministic ==
    /\ \A r \in DOMAIN req : Responded(r) => req[r].draws = SoloDraws
    /\ \A r, o \in DOMAIN req :
          Responded(r) /\ Responded(o) => req[r].draws = req[o].draws

\* three requests have been answered in sequence
C19_Witness ==
    /\ DOMAIN req = {1, 2, 3}
    /\ \A r \in DOMAIN req : Responded(r) /\ Len(req[r].draws) = Len(draw_calls)
    /\ rng = draw_calls

-----------------------------------------------------------------------------
(* The correlation step *)

Constant(s) == \A i, j \in 1 .. Len(s) : s[i] = s[j]

ZeroVariance == Constant(pizza_arr(simulated)) \/ Constant(vix_arr(simulated))

Sent == pc \in {"sent", "done"}

Correlated == pc \in {"jsonify", "sent", "done"}

WindowLength == Len(simulated.pizza_index)

\* the series with another last signal point and another first proxy point
Elsewhere(v, w) ==
    [simulated EXCEPT !.pizza_index[WindowLength] = v, !.vix[1] = w]

\* C21: over a window of n points the correlation is taken over n - 1 pairs,
\* the i-th being (signal[i], proxy[i + 1]); both aligned series have length
\* n - 1, and the last signal point and the first proxy point have no
\* influence on the coefficient.
C21_LagAlignment ==
    Correlated
      => /\ Len(aligned.pizza_arr) = WindowLength - 1
         /\ Len(aligned.vix_arr) = WindowLength - 1
         /\ \A i \in 1 .. WindowLength - 1 :
               /\ aligned.pizza_arr[i] = simulated.pizza_index[i]
               /\ aligned.vix_arr[i] = simulated.vix[i + 1]
         /\ response.correlation = corrcoef(aligned.pizza_arr, aligned.vix_arr)
         /\ \A v \in PizzaValues, w \in VixValues :
               corrcoef(pizza_arr(Elsewhere(v, w)), vix_arr(Elsewhere(v, w)))
                 = response.correlation

\* a defined coefficient over a window whose last signal point and first
\* proxy point differ from their neighbours
C21_Witness ==
    /\ pc = "done" /\ WindowLength = 4
    /\ response.correlation.kind = "number" /\ response.correlation.v # 0
    /\ simulated.pizza_index[4] # simulated.pizza_index[3]
    /\ simulated.vix[1] # simulated.vix[2]

\* C22: the spike count is the number of points of the whole signal series
\* that are strictly greater than 30, a whole number between 0 and the window
\* length, and it is computed whether or not the coefficient is defined.
C22_SpikeCount ==
    Correlated
      => /\ response.spike_count =
               Cardinality({i \in 1 .. WindowLength : simulated.pizza_index[i] > 30})
         /\ response.spike_count \in 0 .. WindowLength

\* an undefined coefficient next to a count of one spike, with a point at 30
\* and the spike in the last place, which the correlation leaves out
C22_Witness ==
    /\ Correlated /\ response.correlation.kind = "nan"
    /\ \E i \in 1 .. WindowLength : simulated.pizza_index[i] = 30
    /\ simulated.pizza_index[WindowLength] = 31
    /\ response.spike_count = 1

-----------------------------------------------------------------------------
(* Undefined values on their way to the page *)

\* C24 as stated: an absent composite score arrives at the page as null and
\* no number shown for it is 0, while a composite score of 0 is shown as 0.
C24_UndefinedNeverZero ==
    Finished /\ program = "dashboard"
      => /\ IsNone(composite_score) <=> Jsonify(composite_score).js = "null"
         /\ IsNone(composite_score) => pizzaScore # Some(<<0, 1>>)
         /\ composite_score = Some(<<0, 1>>) => pizzaScore = Some(<<0, 1>>)

-----------------------------------------------------------------------------
(* A reading of 0 *)

\* the provider gave sensor i a live current value of 0
LiveZero(i) ==
    /\ provider[i].status = "ok"
    /\ provider[i].current_popularity = Some(0)
    /\ Scored(i)

\* the percentage sensor i entered the mean with
ScoreOf(i) == {scores[k].pct : k \in {k \in 1 .. Len(scores) : scores[k].of = i}}

\* C25 as stated: a live current value of 0 is a reading: nothing is imputed
\* for it, the sensor is not labelled closed, and with a baseline > 0 it
\* enters the composite with -100%, or +100% for a sensor of inverse polarity.
C25_ZeroIsReading ==
    Finished
      => \A i \in Positions :
            LiveZero(i)
              => /\ SiteCurrent(i) = Some(0)
                 /\ ~Get(sensors_data[i], "is_fallback", FALSE)
                 /\ LabelOf(labels[i]) # "closed"
                 /\ Aggregates /\ Usable(i)
                      => ScoreOf(i) = {IF IsInverse(i) THEN <<100, 1>> ELSE <<-100, 1>>}

-----------------------------------------------------------------------------
(* The normalizer's provenance fields and its frame *)

\* the entry get_data made from the last result
LastEntry == sensors_data[Len(sensors_data)]

\* the provider gave no live current value (a failed call gives none either)
LiveAbsent == LastAnswer.status # "ok" \/ IsNone(LastAnswer.current_popularity)

\* C27: in every result of the dashboard's normalizer is_fallback is true
\* exactly when fallback_hour is not None, and exactly when the provider's
\* live value was absent and the returned current value is present; a
\* fallback's hour is in 0..23 and its value is > 0.
C27_ProvenanceConsistent ==
    (program = "dashboard" /\ sensors_data # << >>)
      => /\ LastEntry.is_fallback <=> ~IsNone(LastEntry.fallback_hour)
         /\ LastEntry.is_fallback <=> (LiveAbsent /\ ~IsNone(LastEntry.current))
         /\ LastEntry.is_fallback
              => /\ Val(LastEntry.fallback_hour) \in 0 .. 23
                 /\ Val(LastEntry.current) > 0
         /\ NormReturned
              => /\ data.is_fallback = LastEntry.is_fallback
                 /\ data.fallback_hour = LastEntry.fallback_hour

\* a value imputed from hour 23 of the previous day while the clock is earlier
C27_Witness ==
    /\ NormReturned /\ data.is_fallback
    /\ data.fallback_hour = Some(23) /\ hour < 23
    /\ TodayHits = {}

\* C28: the baseline reported is today's entry at the current hour, absent
\* when the hour is beyond the series, and the hourly series reported is
\* today's series as the provider gave it, whether or not a value was imputed
\* and wherever it was imputed from.
C28_ImputationFrame ==
    NormReturned
      => /\ data.usual_popularity =
               (IF hour < Len(ArgToday) THEN Some(ArgToday[hour + 1]) ELSE None)
         /\ data.today_hourly = ArgToday
         /\ LastEntry.usual = data.usual_popularity
         /\ LastEntry.today_hourly = ArgToday

\* a value imputed from an earlier hour of today next to a baseline of 0
C28_Witness ==
    /\ NormReturned /\ data.is_fallback
    /\ Val(data.fallback_hour) < hour
    /\ TodayHits # {}
    /\ data.usual_popularity = Some(0)
    /\ data.current_popularity # data.usual_popularity

-----------------------------------------------------------------------------
(* Imputed values in the dashboard's composite *)

\* today's series and its hits for the first sensor of the roster
FirstToday ==
    LET pt == provider[1].populartimes
    IN  IF Len(pt) > day_of_week THEN pt[day_of_week + 1] ELSE << >>

FirstHits == {h \in 0 .. hour : h < Len(FirstToday) /\ FirstToday[h + 1] > 0}

Composed == program = "dashboard" /\ pc = "respond"

FirstImputed == sensors_data[1].is_fallback

\* C26: an imputed sensor is in the dashboard's composite only when today's
\* baseline at the current hour is > 0; the value was then imputed from the
\* current hour itself, equals the baseline, and enters the mean as 0% while
\* counting in its denominator.  A value imputed from an earlier hour or from
\* the previous day is not in the composite.
C26_ImputedInComposite ==
    (Composed /\ FirstImputed)
      => /\ 1 \in ScoredSet
              => /\ ~IsNone(sensors_data[1].usual) /\ Val(sensors_data[1].usual) > 0
                 /\ sensors_data[1].fallback_hour = Some(hour)
                 /\ FirstHits # {} /\ Max(FirstHits) = hour
                 /\ sensors_data[1].current = sensors_data[1].usual
                 /\ ScoreOf(1) = {<<0, 1>>}
                 /\ Len(scores) = 2
                 /\ composite_score = Some(<<25, 1>>)
         /\ (FirstHits = {} \/ Max(FirstHits) < hour)
              => /\ 1 \notin ScoredSet
                 /\ composite_score = Some(<<50, 1>>)

\* the imputed sensor halves the other sensor's +50%
C26_Witness ==
    /\ Composed /\ FirstImputed
    /\ 1 \in ScoredSet
    /\ composite_score = Some(<<25, 1>>)

\* a value imputed from an earlier hour of today stays outside the composite
C26_WitnessEarlier ==
    /\ Composed /\ FirstImputed
    /\ FirstHits # {} /\ Max(FirstHits) < hour
    /\ 1 \notin ScoredSet

-----------------------------------------------------------------------------
(* The report's normalizer *)

\* test_scraper's get_live_popularity has returned for an answer with data
ReportReturned ==
    /\ program = "report"
    /\ sensors_data # << >>
    /\ LastAnswer.status = "ok"

\* populartimes is not empty and has no entry for today's weekday
ShortWeek ==
    /\ LastAnswer.populartimes # << >>
    /\ Len(LastAnswer.populartimes) <= day_of_week

\* C29 as stated: whenever the provider returns data, the report's normalizer
\* answers has_data true with the provider's current_popularity, also when
\* populartimes is not empty and lacks today's weekday, where the baseline is
\* absent.
C29_ShortWeekKeepsReading ==
    ReportReturned
      => /\ data.has_data
         /\ Get(data, "current_popularity", None) = LastAnswer.current_popularity
         /\ ShortWeek => IsNone(Get(data, "usual_popularity", None))

-----------------------------------------------------------------------------
(* One whole refresh *)

\* None, or a present whole number
OptionalNat(o) == o = None \/ (Len(o) = 1 /\ o[1] \in Nat)

\* None, or a present fraction
OptionalFrac(o) == o = None \/ (Len(o) = 1 /\ Len(o[1]) = 2 /\ o[1][2] > 0)

\* a missing quantity is sent as null, a present one as a number
ExplicitNull(o) == Jsonify(o).js = (IF IsNone(o) THEN "null" ELSE "number")

WellFormedSensor(s) ==
    /\ {"name", "role", "current", "usual", "today_hourly", "is_fallback",
        "fallback_hour"} \subseteq DOMAIN s
    /\ OptionalNat(s.current) /\ ExplicitNull(s.current)
    /\ OptionalNat(s.usual) /\ ExplicitNull(s.usual)
    /\ OptionalNat(s.fallback_hour) /\ ExplicitNull(s.fallback_hour)

\* without yfinance the market object is the explicit has_data false
WellFormedMarket ==
    /\ "has_data" \in DOMAIN market
    /\ market.has_data <=> yfinance
    /\ market.has_data
         => /\ {"vix", "gold", "vix_history", "gold_history"} \subseteq DOMAIN market
            /\ OptionalNat(market.vix) /\ ExplicitNull(market.vix)
            /\ OptionalNat(market.gold) /\ ExplicitNull(market.gold)

WellFormedResult ==
    pc = "done"
         => /\ Len(sensors_data) = Len(SENSORS)
            /\ \A i \in Positions : WellFormedSensor(sensors_data[i])
            /\ WellFormedMarket
            /\ OptionalFrac(composite_score) /\ ExplicitNull(composite_score)
            /\ alert.title \in {"SENSORS OFFLINE", "RED ALERT - ANOMALY DETECTED",
                                 "ELEVATED ACTIVITY", "NORMAL OPERATIONS"}
            /\ Len(labels) = Len(SENSORS) /\ Len(shown) = Len(SENSORS)
            /\ ~IsNone(pizzaScore)

\* the composite step only assigns, so it can be taken where its guard holds
CompositeReady ==
    /\ program = "dashboard" /\ pc = "fetch"
    /\ Len(sensors_data) = Len(SENSORS)
    /\ market # << >>

\* some step of the refresh can be taken
CanStep ==
    \/ ENABLED DashFetchSensor
    \/ ENABLED CycleMarket
    \/ CompositeReady
    \/ ENABLED DashRender

\* C23: whatever the providers answer, a refresh is never stuck before its
\* end, and at its end the result holds one well-formed entry per sensor, a
\* well-formed market object and a composite score, every missing quantity
\* being an explicit null, and the page has drawn its banner and labels.
C23_NothingFatal == (pc # "done" => CanStep) /\ WellFormedResult

\* both provider calls failed and both tickers failed, and the refresh ended
\* with nulls throughout
C23_Witness ==
    /\ pc = "done"
    /\ \A i \in Positions : Failed(i) /\ IsNone(sensors_data[i].current)
    /\ provider[1].status = "raises" /\ provider[2].status = "empty"
    /\ market.has_data /\ IsNone(market.vix) /\ IsNone(market.gold)
    /\ tickers["^VIX"].history.status = "raises"
    /\ IsNone(composite_score)
    /\ alert.title = "SENSORS OFFLINE"

=============================================================================
